---- MODULE Spec2Model ----
(***************************************************************************)
(* The base64 document viewer (PDFViewer) as a state machine.              *)
(*                                                                         *)
(* Three component variants are modelled:                                  *)
(*   - the richest variant, src/unnamed/part_000 lines 1-522               *)
(*     (specifications Spec, SpecPages, SpecZoom for its zoom, and         *)
(*     SpecViewer for its zoom among all other events);                    *)
(*   - the index.tsx variant, src/src/index.tsx                            *)
(*     (specification SpecIndex, and SpecZoom for its zoom);               *)
(*   - the simplest variant, src/unnamed/part_000 lines 523-636            *)
(*     (specification SpecSimple);                                         *)
(* and the pure helpers detectContentType (SpecDetect), the scan of a      *)
(* visibility report (SpecObserver) and calcAutoScale (SpecScale).         *)
(*                                                                         *)
(* A React handler (effect, callback, click) is one atomic action: the     *)
(* state setters it calls are batched and the re-render that follows,      *)
(* with the effects whose dependencies changed, is part of the action.     *)
(* The host (URL.createObjectURL / URL.revokeObjectURL), the rendering     *)
(* engine behind <Document> and the IntersectionObserver are the           *)
(* environment: they are modelled by the calls the component makes on      *)
(* them and by the callbacks they may deliver.                             *)
(***************************************************************************)
EXTENDS Integers, Sequences, FiniteSets, TLC

----------------------------------------------------------------------------
(* Bounds of the model *)

\* createObjectURL calls that succeed in one run
MaxUrls == 3
\* entries of one IntersectionObserver report
MaxEntries == 2

----------------------------------------------------------------------------
(* Texts: a string is a sequence of one-character strings *)

Max(a, b) == IF a > b THEN a ELSE b
Min(a, b) == IF a < b THEN a ELSE b

\* String.prototype.startsWith
StartsWith(s, p) == Len(s) >= Len(p) /\ SubSeq(s, 1, Len(p)) = p

Base64Alphabet ==
    {"A","B","C","D","E","F","G","H","I","J","K","L","M",
     "N","O","P","Q","R","S","T","U","V","W","X","Y","Z",
     "a","b","c","d","e","f","g","h","i","j","k","l","m",
     "n","o","p","q","r","s","t","u","v","w","x","y","z",
     "0","1","2","3","4","5","6","7","8","9","+","/"}

AsciiWhitespace == {" ", "\t", "\n", "\f", "\r"}

\* the text with its ASCII whitespace removed
StripWhitespace(s) == SelectSeq(s, LAMBDA c : c \notin AsciiWhitespace)

\* the text with the padding of a whole number of quads removed
StripPadding(s) ==
    IF Len(s) % 4 = 0 /\ Len(s) >= 2 /\ s[Len(s)] = "=" /\ s[Len(s) - 1] = "="
    THEN SubSeq(s, 1, Len(s) - 2)
    ELSE IF Len(s) % 4 = 0 /\ Len(s) >= 1 /\ s[Len(s)] = "="
    THEN SubSeq(s, 1, Len(s) - 1)
    ELSE s

\* atob(base64): the number of bytes decoded, or -1 when atob throws
\* (a character outside the alphabet, or a length of 1 modulo 4)
atob(base64) ==
    LET data == StripPadding(StripWhitespace(base64))
    IN  IF Len(data) % 4 = 1 THEN -1
        ELSE IF \E i \in 1..Len(data) : data[i] \notin Base64Alphabet THEN -1
        ELSE (Len(data) * 6) \div 8

----------------------------------------------------------------------------
(* Content decoder *)

Pdf == "application/pdf"
NoType == "null"

detectContentType_DropGif(base64) ==
    IF StartsWith(base64, <<"J","V","B","E","R">>) THEN "application/pdf"
    ELSE IF StartsWith(base64, <<"/","9","j","/">>) THEN "image/jpeg"
    ELSE IF StartsWith(base64, <<"i","V","B","O","R">>) THEN "image/png"
    ELSE IF StartsWith(base64, <<"U","k","l","G","R">>) THEN "image/webp"
    ELSE "application/pdf"

detectContentType(base64) ==
    IF StartsWith(base64, <<"J","V","B","E","R">>) THEN "application/pdf"
    ELSE IF StartsWith(base64, <<"/","9","j","/">>) THEN "image/jpeg"
    ELSE IF StartsWith(base64, <<"i","V","B","O","R">>) THEN "image/png"
    ELSE IF StartsWith(base64, <<"R","0","l","G","O","D">>) THEN "image/gif"
    ELSE IF StartsWith(base64, <<"U","k","l","G","R">>) THEN "image/webp"
    ELSE "application/pdf"

\* "no blob": the memo's null
NoBlob == [type |-> NoType, size |-> -1]

\* base64ToBlob(base64, contentType): the Blob, or NoBlob when atob throws
base64ToBlob(base64, type) ==
    IF atob(base64) < 0 THEN NoBlob
    ELSE [type |-> type, size |-> atob(base64)]

\* the blobData memo: null for an absent payload and for one that fails
\* to decode, otherwise { blob, type }
blobDataMemo(base64) ==
    IF base64 = <<>> THEN NoBlob
    ELSE base64ToBlob(base64, detectContentType(base64))

----------------------------------------------------------------------------
(* Payloads the host supplies *)

EmptyPayload == <<>>
PdfA == <<"J","V","B","E","R","i","0","x">>
PdfB == <<"J","V","B","E","R","i","0","y">>
PdfCorrupt == <<"J","V","B","E","R","i","0","z">>
JpegA == <<"/","9","j","/","4","A","A","Q">>
Malformed == <<"n","o","t","-","o","k","!","!">>
MalformedPdf == <<"J","V","B","E","R">>

Payloads == {EmptyPayload, PdfA, PdfB, PdfCorrupt, JpegA, Malformed, MalformedPdf}

\* what the rendering engine finds in a document: its page count, or 0
\* when it cannot parse it
EnginePages(base64) ==
    IF base64 = PdfA THEN 3
    ELSE IF base64 = PdfB THEN 5
    ELSE 0

\* the largest page count of a document of Payloads
MaxPages == Max(EnginePages(PdfA), EnginePages(PdfB))

----------------------------------------------------------------------------
(* The richest variant: src/unnamed/part_000 lines 1-522 *)

VARIABLES
    mounted,          \* the component is mounted
    base64Data,       \* Retool state "base64Data"
    blobData,         \* the memo { blob, type }, or NoBlob
    blobUrl,          \* useState: the object URL shown, or NoUrl
    contentType,      \* useState
    numPages,         \* useState
    currentPage,      \* useState
    loading,          \* useState
    error,            \* useState
    previousBlobUrl,  \* useRef: the object URL to revoke next
    urlsCreated,      \* host: object URLs created so far (they are 1..urlsCreated)
    revokeCount,      \* host: revokeObjectURL calls per object URL
    urlDoc,           \* host: the payload behind each object URL
    urlCalls,         \* host: the URL calls of the latest handler, in order
    pending,          \* engine: the loads <Document> started and has not reported
    docReady,         \* engine: <Document> has loaded its current file
    reported,         \* engine: what it reported per object URL (0 nothing, -1 failure)
    observerPages,    \* observer: current page elements it observes (-1: no observer)
    scrollCall,       \* the page the latest handler scrolled to (0: it did not scroll)
    lastOp            \* the latest handler and its argument

richVars == <<mounted, base64Data, blobData, blobUrl, contentType, numPages,
              currentPage, loading, error, previousBlobUrl, urlsCreated,
              revokeCount, urlDoc, urlCalls, pending, docReady, reported,
              observerPages, scrollCall, lastOp>>

NoUrl == 0
NoError == "null"
FileError == "Fehler beim Laden der Datei"
PdfError == "Fehler beim Laden des PDF"
Urls == 1..MaxUrls

Op(name, arg) == [op |-> name, arg |-> arg]

\* the component's document state, as the setters leave it
ViewState ==
    [blobUrl |-> blobUrl, contentType |-> contentType, numPages |-> numPages,
     currentPage |-> currentPage, error |-> error]

\* host: the object URLs created and not revoked
LiveUrls == {u \in 1..urlsCreated : revokeCount[u] = 0}

Revoke(u) == [op |-> "revoke", url |-> u]
Create(u) == [op |-> "create", url |-> u]

\* host: the registry after a handler's calls
CountCalls(calls, c) == Cardinality({i \in 1..Len(calls) : calls[i] = c})

HostAfter(calls, doc) ==
    /\ urlCalls' = calls
    /\ revokeCount' = [u \in Urls |-> revokeCount[u] + CountCalls(calls, Revoke(u))]
    /\ urlsCreated' = urlsCreated
                       + Cardinality({i \in 1..Len(calls) : calls[i].op = "create"})
    /\ urlDoc' = [u \in Urls |->
                    IF CountCalls(calls, Create(u)) > 0 THEN doc ELSE urlDoc[u]]

RichInit ==
    /\ mounted = TRUE
    /\ base64Data = EmptyPayload
    /\ blobData = NoBlob
    /\ blobUrl = NoUrl
    /\ contentType = NoType
    /\ numPages = 0
    /\ currentPage = 1
    /\ loading = FALSE
    /\ error = NoError
    /\ previousBlobUrl = NoUrl
    /\ urlsCreated = 0
    /\ revokeCount = [u \in Urls |-> 0]
    /\ urlDoc = [u \in Urls |-> EmptyPayload]
    /\ urlCalls = <<>>
    /\ pending = {}
    /\ docReady = FALSE
    /\ reported = [u \in Urls |-> 0]
    /\ observerPages = -1
    /\ scrollCall = 0
    /\ lastOp = Op("mount", 0)

(* -- the blob URL effect, lines 77-109 -- *)

\* lines 79-82, mutated: the previous object URL is not revoked
CleanupPrevious_NoRevoke == <<>>

\* lines 79-82: revoke the previous object URL
CleanupPrevious ==
    IF previousBlobUrl # NoUrl THEN <<Revoke(previousBlobUrl)>> ELSE <<>>

\* lines 84-91, mutated: the page count is kept
ResetDocument_KeepPages ==
    [blobUrl |-> NoUrl, contentType |-> NoType, numPages |-> numPages,
     currentPage |-> 1, error |-> NoError]

\* lines 84-91, mutated: the error is kept
ResetDocument_KeepError ==
    [blobUrl |-> NoUrl, contentType |-> NoType, numPages |-> 0,
     currentPage |-> 1, error |-> error]

\* lines 84-91: no blob, back to "no document"
ResetDocument ==
    [blobUrl |-> NoUrl, contentType |-> NoType, numPages |-> 0,
     currentPage |-> 1, error |-> NoError]

\* lines 93-100, mutated: the error is not cleared
PublishDocument_KeepError(url, type) ==
    [blobUrl |-> url, contentType |-> type, numPages |-> numPages,
     currentPage |-> currentPage, error |-> error]

\* lines 93-100: the object URL is published
PublishDocument(url, type) ==
    [blobUrl |-> url, contentType |-> type, numPages |-> numPages,
     currentPage |-> currentPage, error |-> NoError]

\* lines 101-105: createObjectURL threw
PublishFailed ==
    [blobUrl |-> NoUrl, contentType |-> NoType, numPages |-> numPages,
     currentPage |-> currentPage, error |-> FileError]

\* lines 77-100, mutated: the new object URL is created before the old is revoked
PublishCalls_CreateFirst(url) == <<Create(url)>> \o CleanupPrevious

\* lines 77-100: the host calls of a publishing run, in the order made
PublishCalls(url) == CleanupPrevious \o <<Create(url)>>

\* the effect for the memo bd; createOk: createObjectURL returns
BlobUrlEffect(bd, createOk) ==
    LET url == urlsCreated + 1
    IN  IF bd = NoBlob
        THEN [st |-> ResetDocument, prev |-> NoUrl, calls |-> CleanupPrevious]
        ELSE IF createOk
        THEN [st |-> PublishDocument(url, bd.type), prev |-> url,
              calls |-> PublishCalls(url)]
        ELSE [st |-> PublishFailed, prev |-> NoUrl, calls |-> CleanupPrevious]

(* -- the render, lines 375-399, and what follows a commit -- *)

\* line 375: <Document> is rendered
DocumentRenderedIn(st, isLoading) ==
    /\ ~isLoading
    /\ st.error = NoError
    /\ st.blobUrl # NoUrl
    /\ st.contentType = Pdf

DocumentRendered == DocumentRenderedIn(ViewState, loading)

\* lines 383-396: the page elements rendered, which fill pageRefs.current
RenderedPagesIn(st, isLoading, ready) ==
    IF DocumentRenderedIn(st, isLoading) /\ ready THEN st.numPages ELSE 0

RenderedPages == RenderedPagesIn(ViewState, loading, docReady)

\* lines 148-180, mutated: contentType is not a dependency of the effect
ObserverAfter_NoTypeDep(st, ready, remounted) ==
    IF st.numPages # numPages \/ st.currentPage # currentPage
    THEN IF st.contentType # Pdf \/ st.numPages = 0
         THEN -1
         ELSE RenderedPagesIn(st, FALSE, ready)
    ELSE IF observerPages = -1 THEN -1
    ELSE IF remounted THEN 0
    ELSE observerPages

\* lines 148-180: the observer after a commit. The effect runs again when
\* contentType, numPages or currentPage changed; otherwise the observer it
\* left keeps the elements it was given, which are the current ones only
\* while the pages stay mounted.
ObserverAfter(st, ready, remounted) ==
    IF st.contentType # contentType \/ st.numPages # numPages
       \/ st.currentPage # currentPage
    THEN IF st.contentType # Pdf \/ st.numPages = 0
         THEN -1
         ELSE RenderedPagesIn(st, FALSE, ready)
    ELSE IF observerPages = -1 THEN -1
    ELSE IF remounted THEN 0
    ELSE observerPages

\* The setters' values are committed, <Document> is rendered or not, starts
\* the load of a new file, and the observer effect runs.  pend and ready are
\* the engine's loads and readiness before the commit.
Commit(st, pend, ready) ==
    LET was == DocumentRendered
        is == DocumentRenderedIn(st, FALSE)
        started == is /\ (~was \/ st.blobUrl # blobUrl)
        nowReady == is /\ ~started /\ ready
        remounted == ~(was /\ docReady /\ nowReady)
    IN  /\ blobUrl' = st.blobUrl
        /\ contentType' = st.contentType
        /\ numPages' = st.numPages
        /\ currentPage' = st.currentPage
        /\ error' = st.error
        /\ loading' = FALSE
        /\ pending' = IF ~is THEN {}
                      ELSE (IF was THEN pend ELSE {})
                           \cup (IF started THEN {st.blobUrl} ELSE {})
        /\ docReady' = nowReady
        /\ observerPages' = ObserverAfter(st, nowReady, remounted)

\* line 363: the error message is shown
ErrorShown == error # NoError

\* line 419: "Keine Datei zum Anzeigen gefunden" is shown
NoFileShown == ~loading /\ error = NoError /\ blobUrl = NoUrl

\* line 401: contentType?.startsWith('image/'), over the types detected
ImageTypes == {"image/jpeg", "image/png", "image/gif", "image/webp"}

\* line 235: what the download link resolves to ('#' is NoUrl)
downloadLink == blobUrl

\* line 236
isDownloadDisabled == blobUrl = NoUrl

(* -- payload changes -- *)

\* The host sets base64Data to p: the memo is recomputed and the blob URL
\* effect runs when the memo changed (null to null is no change).
SetBase64Data(p, createOk) ==
    /\ mounted
    /\ p # base64Data
    /\ LET bd == blobDataMemo(p)
           eff == BlobUrlEffect(bd, createOk)
       IN  /\ (bd # NoBlob /\ createOk) => urlsCreated < MaxUrls
           /\ (bd = NoBlob) => createOk
           /\ base64Data' = p
           /\ blobData' = bd
           /\ IF blobData = NoBlob /\ bd = NoBlob
              THEN /\ HostAfter(<<>>, p)
                   /\ previousBlobUrl' = previousBlobUrl
                   /\ Commit(ViewState, pending, docReady)
              ELSE /\ HostAfter(eff.calls, p)
                   /\ previousBlobUrl' = eff.prev
                   /\ Commit(eff.st, pending, docReady)
    /\ scrollCall' = 0
    /\ lastOp' = Op("setBase64Data", 0)
    /\ UNCHANGED <<mounted, reported>>

(* -- component teardown, lines 112-118 -- *)

UnmountCalls ==
    IF previousBlobUrl # NoUrl THEN <<Revoke(previousBlobUrl)>> ELSE <<>>

Unmount ==
    /\ mounted
    /\ mounted' = FALSE
    /\ HostAfter(UnmountCalls, EmptyPayload)
    /\ pending' = {}
    /\ docReady' = FALSE
    /\ observerPages' = -1
    /\ scrollCall' = 0
    /\ lastOp' = Op("unmount", 0)
    /\ UNCHANGED <<base64Data, blobData, blobUrl, contentType, numPages,
                   currentPage, loading, error, previousBlobUrl, reported>>

(* -- the rendering engine's callbacks, lines 133-145 -- *)

\* lines 133-139, mutated: the current page is kept
onDocumentLoadSuccess_KeepPage(n) ==
    [ViewState EXCEPT !.numPages = n, !.error = NoError]

\* lines 133-139
onDocumentLoadSuccess(n) ==
    [ViewState EXCEPT !.numPages = n, !.currentPage = 1, !.error = NoError]

\* lines 141-145, mutated: the page count is kept
onDocumentLoadError_KeepPages == [ViewState EXCEPT !.error = PdfError]

\* lines 141-145
onDocumentLoadError ==
    [ViewState EXCEPT !.error = PdfError, !.numPages = 0]

\* The engine reports the page count of the load u.  <Document> passes the
\* report to onLoadSuccess whether or not u is still the file it shows:
\* the handler has nothing to tell the loads apart.
DocumentLoadSuccess(u) ==
    /\ mounted
    /\ u \in pending
    /\ EnginePages(urlDoc[u]) > 0
    /\ Commit(onDocumentLoadSuccess(EnginePages(urlDoc[u])), pending \ {u},
              IF u = blobUrl THEN TRUE ELSE docReady)
    /\ reported' = [reported EXCEPT ![u] = EnginePages(urlDoc[u])]
    /\ HostAfter(<<>>, EmptyPayload)
    /\ scrollCall' = 0
    /\ lastOp' = Op("loadSuccess", u)
    /\ UNCHANGED <<mounted, base64Data, blobData, previousBlobUrl>>

\* The engine reports that it cannot parse the load u.
DocumentLoadError(u) ==
    /\ mounted
    /\ u \in pending
    /\ EnginePages(urlDoc[u]) = 0
    /\ Commit(onDocumentLoadError, pending \ {u}, docReady)
    /\ reported' = [reported EXCEPT ![u] = -1]
    /\ HostAfter(<<>>, EmptyPayload)
    /\ scrollCall' = 0
    /\ lastOp' = Op("loadError", u)
    /\ UNCHANGED <<mounted, base64Data, blobData, previousBlobUrl>>

(* -- the IntersectionObserver callback, lines 152-169 -- *)

\* intersection ratios, in percent
Ratios == {0, 50, 100}

\* An entry: page is the index of entry.target in pageRefs.current plus
\* one, and 0 when indexOf returns -1.
Entries(pages) == [page : 0..pages, ratio : Ratios]

\* the reports of up to MaxEntries entries
Reports(pages) ==
    UNION {[1..n -> Entries(pages)] : n \in 1..MaxEntries}

\* The reports of one entry.  A report changes the state only through the
\* page its scan adopts, and every page a longer report can make the
\* callback adopt is adopted from a report of one entry, so these reach
\* every state the component can reach; the scan of longer reports is
\* exercised on its own under SpecObserver.
SingleReports(pages) == {<<entry>> : entry \in Entries(pages)}

RECURSIVE ScanEntries_LastWins(_, _, _)
\* lines 153-164, mutated: the comparison is >=
ScanEntries_LastWins(entries, bestRatio, newPage) ==
    IF entries = <<>> THEN newPage
    ELSE LET entry == Head(entries)
         IN  IF entry.ratio >= bestRatio
             THEN ScanEntries_LastWins(Tail(entries), entry.ratio,
                              IF entry.page # 0 THEN entry.page ELSE newPage)
             ELSE ScanEntries_LastWins(Tail(entries), bestRatio, newPage)

RECURSIVE ScanEntries(_, _, _)
\* lines 153-164: the forEach over the entries
ScanEntries(entries, bestRatio, newPage) ==
    IF entries = <<>> THEN newPage
    ELSE LET entry == Head(entries)
         IN  IF entry.ratio > bestRatio
             THEN ScanEntries(Tail(entries), entry.ratio,
                              IF entry.page # 0 THEN entry.page ELSE newPage)
             ELSE ScanEntries(Tail(entries), bestRatio, newPage)

\* lines 152-168, mutated: the index is adopted without the "+ 1"
observerCallback_ZeroBased(entries) ==
    LET newPage == ScanEntries(entries, 0, 0) - 1
    IN  IF newPage >= 0 /\ newPage # currentPage THEN newPage ELSE currentPage

\* lines 152-168: the current page after the callback, when it was current
observerAdopts(entries, current) ==
    LET newPage == ScanEntries(entries, 0, 0)
    IN  IF newPage > 0 /\ newPage # current THEN newPage ELSE current

\* lines 152-168: the page the callback adopts (currentPage when none)
observerCallback(entries) == observerAdopts(entries, currentPage)

VisibilityReport(entries) ==
    /\ mounted
    /\ observerPages >= 0
    /\ Commit([ViewState EXCEPT !.currentPage = observerCallback(entries)],
              pending, docReady)
    /\ HostAfter(<<>>, EmptyPayload)
    /\ scrollCall' = 0
    /\ lastOp' = Op("visibility", ScanEntries(entries, 0, 0))
    /\ UNCHANGED <<mounted, base64Data, blobData, previousBlobUrl, reported>>

(* -- navigation, lines 182-197 -- *)

\* lines 182-189: the page scrolled into view, 0 when nothing is scrolled
goToPage(page) ==
    IF contentType # Pdf \/ page < 1 \/ page > numPages THEN 0
    ELSE IF page <= RenderedPages THEN page
    ELSE 0

\* lines 191-193
goToPrevPage == goToPage(Max(1, currentPage - 1))

\* lines 195-197
goToNextPage == goToPage(Min(numPages, currentPage + 1))

\* lines 485-503: the page buttons are rendered
PageButtonsRendered == contentType = Pdf /\ numPages > 0

Navigate(name, scrolled) ==
    /\ scrollCall' = scrolled
    /\ lastOp' = Op(name, currentPage)
    /\ HostAfter(<<>>, EmptyPayload)
    /\ UNCHANGED <<mounted, base64Data, blobData, blobUrl, contentType,
                   numPages, currentPage, loading, error, previousBlobUrl,
                   pending, docReady, reported, observerPages>>

\* lines 488-495: a click on the enabled "previous page" button
ClickPrevPage ==
    /\ mounted
    /\ PageButtonsRendered
    /\ ~(currentPage <= 1)
    /\ Navigate("prev", goToPrevPage)

\* lines 496-503: a click on the enabled "next page" button
ClickNextPage ==
    /\ mounted
    /\ PageButtonsRendered
    /\ ~(currentPage >= numPages)
    /\ Navigate("next", goToNextPage)

----------------------------------------------------------------------------
(* The index.tsx variant: src/src/index.tsx *)

VARIABLES
    ixBase64Data,     \* Retool state "base64Data"
    pdfBlobUrl,       \* useState: the object URL shown, or NoUrl
    ixNumPages,       \* useState numPages
    ixCurrentPage,    \* useState currentPage
    ixLoading,        \* useState loading
    ixUrlsCreated,    \* host: object URLs created so far
    ixRevokeCount,    \* host: revokeObjectURL calls per object URL
    ixUrlDoc,         \* host: the payload behind each object URL
    ixPending,        \* engine: the loads <Document> started and has not reported
    ixDocReady,       \* engine: <Document> has loaded its current file
    ixObserverPages,  \* observer: current page elements it observes (-1: none)
    ixScrollCall,     \* the page the latest handler scrolled to (0: none)
    ixLastOp          \* the latest handler and its argument

ixVars == <<ixBase64Data, pdfBlobUrl, ixNumPages, ixCurrentPage, ixLoading,
            ixUrlsCreated, ixRevokeCount, ixUrlDoc, ixPending, ixDocReady,
            ixObserverPages, ixScrollCall, ixLastOp>>

IxInit ==
    /\ ixBase64Data = EmptyPayload
    /\ pdfBlobUrl = NoUrl
    /\ ixNumPages = 0
    /\ ixCurrentPage = 1
    /\ ixLoading = FALSE
    /\ ixUrlsCreated = 0
    /\ ixRevokeCount = [u \in Urls |-> 0]
    /\ ixUrlDoc = [u \in Urls |-> EmptyPayload]
    /\ ixPending = {}
    /\ ixDocReady = FALSE
    /\ ixObserverPages = -1
    /\ ixScrollCall = 0
    /\ ixLastOp = Op("mount", 0)

IxViewState ==
    [pdfBlobUrl |-> pdfBlobUrl, numPages |-> ixNumPages,
     currentPage |-> ixCurrentPage]

\* host: the object URLs created and not revoked
IxLiveUrls == {u \in 1..ixUrlsCreated : ixRevokeCount[u] = 0}

\* line 151: <Document> is rendered
IxDocumentRenderedIn(st, isLoading) == ~isLoading /\ st.pdfBlobUrl # NoUrl

\* lines 153-161: the page elements rendered
IxRenderedPagesIn(st, isLoading, ready) ==
    IF IxDocumentRenderedIn(st, isLoading) /\ ready THEN st.numPages ELSE 0

IxRenderedPages == IxRenderedPagesIn(IxViewState, ixLoading, ixDocReady)

\* lines 68-95: the observer after a commit; the effect depends on numPages
IxObserverAfter(st, ready, remounted) ==
    IF st.numPages # ixNumPages
    THEN IF st.numPages = 0 THEN -1 ELSE IxRenderedPagesIn(st, FALSE, ready)
    ELSE IF ixObserverPages = -1 THEN -1
    ELSE IF remounted THEN 0
    ELSE ixObserverPages

IxCommit(st, pend, ready) ==
    LET was == IxDocumentRenderedIn(IxViewState, ixLoading)
        is == IxDocumentRenderedIn(st, FALSE)
        started == is /\ (~was \/ st.pdfBlobUrl # pdfBlobUrl)
        nowReady == is /\ ~started /\ ready
        remounted == ~(was /\ ixDocReady /\ nowReady)
    IN  /\ pdfBlobUrl' = st.pdfBlobUrl
        /\ ixNumPages' = st.numPages
        /\ ixCurrentPage' = st.currentPage
        /\ ixLoading' = FALSE
        /\ ixPending' = IF ~is THEN {}
                        ELSE (IF was THEN pend ELSE {})
                             \cup (IF started THEN {st.pdfBlobUrl} ELSE {})
        /\ ixDocReady' = nowReady
        /\ ixObserverPages' = IxObserverAfter(st, nowReady, remounted)

\* lines 41-59: the effect on base64Data; createOk: createObjectURL returns
IxBase64Effect(base64, createOk) ==
    IF base64 = <<>>
    THEN [pdfBlobUrl |-> NoUrl, numPages |-> 0, currentPage |-> 1]
    ELSE IF base64ToBlob(base64, Pdf) # NoBlob /\ createOk
    THEN [IxViewState EXCEPT !.pdfBlobUrl = ixUrlsCreated + 1]
    ELSE [IxViewState EXCEPT !.pdfBlobUrl = NoUrl]

IxSetBase64Data(p, createOk) ==
    /\ p # ixBase64Data
    /\ LET st == IxBase64Effect(p, createOk)
           created == st.pdfBlobUrl # NoUrl
       IN  /\ created => ixUrlsCreated < MaxUrls
           /\ (base64ToBlob(p, Pdf) = NoBlob) => createOk
           /\ ixBase64Data' = p
           /\ ixUrlsCreated' = IF created THEN ixUrlsCreated + 1 ELSE ixUrlsCreated
           /\ ixUrlDoc' = IF created
                          THEN [ixUrlDoc EXCEPT ![st.pdfBlobUrl] = p]
                          ELSE ixUrlDoc
           /\ IxCommit(st, ixPending, ixDocReady)
    /\ ixScrollCall' = 0
    /\ ixLastOp' = Op("setBase64Data", 0)
    /\ UNCHANGED ixRevokeCount

\* lines 62-65
ixOnDocumentLoadSuccess(n) ==
    [IxViewState EXCEPT !.numPages = n, !.currentPage = 1]

IxDocumentLoadSuccess(u) ==
    /\ u \in ixPending
    /\ EnginePages(ixUrlDoc[u]) > 0
    /\ IxCommit(ixOnDocumentLoadSuccess(EnginePages(ixUrlDoc[u])),
                ixPending \ {u}, IF u = pdfBlobUrl THEN TRUE ELSE ixDocReady)
    /\ ixScrollCall' = 0
    /\ ixLastOp' = Op("loadSuccess", u)
    /\ UNCHANGED <<ixBase64Data, ixUrlsCreated, ixRevokeCount, ixUrlDoc>>

\* lines 71-86: the current page after the callback, when it was current
ixObserverAdopts(entries, current) ==
    LET newCurrentPage == ScanEntries(entries, 0, 0)
    IN  IF newCurrentPage > 0 THEN newCurrentPage ELSE current

\* lines 71-86: the page the callback adopts (currentPage when none)
ixObserverCallback(entries) == ixObserverAdopts(entries, ixCurrentPage)

IxVisibilityReport(entries) ==
    /\ ixObserverPages >= 0
    /\ IxCommit([IxViewState EXCEPT !.currentPage = ixObserverCallback(entries)],
                ixPending, ixDocReady)
    /\ ixScrollCall' = 0
    /\ ixLastOp' = Op("visibility", ScanEntries(entries, 0, 0))
    /\ UNCHANGED <<ixBase64Data, ixUrlsCreated, ixRevokeCount, ixUrlDoc>>

\* lines 98-105: the current page set and the page scrolled into view
ixGoToPage(page) ==
    [currentPage |-> page,
     scrolled |-> IF 1 <= page /\ page <= IxRenderedPages THEN page ELSE 0]

\* lines 107-110
ixGoToPrevPage == ixGoToPage(Max(1, ixCurrentPage - 1))

\* lines 112-115
ixGoToNextPage == ixGoToPage(Min(ixNumPages, ixCurrentPage + 1))

IxNavigate(name, nav) ==
    /\ IxCommit([IxViewState EXCEPT !.currentPage = nav.currentPage],
                ixPending, ixDocReady)
    /\ ixScrollCall' = nav.scrolled
    /\ ixLastOp' = Op(name, ixCurrentPage)
    /\ UNCHANGED <<ixBase64Data, ixUrlsCreated, ixRevokeCount, ixUrlDoc>>

\* lines 179-187: a click on the enabled "previous page" button
IxClickPrevPage ==
    /\ ~(ixCurrentPage <= 1 \/ ixNumPages = 0)
    /\ IxNavigate("prev", ixGoToPrevPage)

\* lines 189-197: a click on the enabled "next page" button
IxClickNextPage ==
    /\ ~(ixCurrentPage >= ixNumPages \/ ixNumPages = 0)
    /\ IxNavigate("next", ixGoToNextPage)

----------------------------------------------------------------------------
(* detectContentType on its own *)

VARIABLES
    detInput,         \* the text given to detectContentType
    detResult         \* what it returned ("none" before the call)

detVars == <<detInput, detResult>>

\* tail characters tried after a (partial) magic prefix, up to MaxTail of them
MaxTail == 2

Magics ==
    {<<"J","V","B","E","R">>, <<"/","9","j","/">>, <<"i","V","B","O","R">>,
     <<"R","0","l","G","O","D">>, <<"U","k","l","G","R">>}

DetectHeads == UNION {{SubSeq(m, 1, k) : k \in 0..Len(m)} : m \in Magics}

DetectTails ==
    Magics \cup UNION {[1..n -> {"R", "D", "x"}] : n \in 0..MaxTail}

DetectInputs == {h \o t : h \in DetectHeads, t \in DetectTails}

DetIdle == detInput = <<>> /\ detResult = "none"

DetInit == detInput \in DetectInputs /\ detResult = "none"

Detect ==
    /\ detResult = "none"
    /\ detResult' = detectContentType(detInput)
    /\ UNCHANGED detInput

----------------------------------------------------------------------------
(* The IntersectionObserver callback on its own *)

VARIABLES
    obsEntries,       \* the entries given to the callback
    obsCurrentPage,   \* currentPage when the callback runs
    obsNewPage,       \* the page its scan found (-1 before the call)
    obsAdopted,       \* currentPage after the callback of the richest variant
    obsIxAdopted,     \* currentPage after the callback of index.tsx
    obsScrolled       \* the page the callbacks scrolled to (0: none)

obsVars == <<obsEntries, obsCurrentPage, obsNewPage, obsAdopted, obsIxAdopted,
             obsScrolled>>

\* the pages of the document observed
ObsPages == EnginePages(PdfA)

ObsIdle ==
    /\ obsEntries = <<>>
    /\ obsCurrentPage = 1
    /\ obsNewPage = -1
    /\ obsAdopted = -1
    /\ obsIxAdopted = -1
    /\ obsScrolled = 0

ObsInit ==
    /\ obsEntries \in Reports(ObsPages)
    /\ obsCurrentPage \in 1..ObsPages
    /\ obsNewPage = -1
    /\ obsAdopted = -1
    /\ obsIxAdopted = -1
    /\ obsScrolled = 0

\* the callbacks run on the report: neither calls scrollIntoView
Observe ==
    /\ obsNewPage = -1
    /\ obsNewPage' = ScanEntries(obsEntries, 0, 0)
    /\ obsAdopted' = observerAdopts(obsEntries, obsCurrentPage)
    /\ obsIxAdopted' = ixObserverAdopts(obsEntries, obsCurrentPage)
    /\ obsScrolled' = 0
    /\ UNCHANGED <<obsEntries, obsCurrentPage>>

----------------------------------------------------------------------------
(* Numbers: a zoom level or a scale is the exact fraction n/d, d > 0, in   *)
(* lowest terms.  The code computes in IEEE doubles; Math.min and Math.max *)
(* are exact there too, so the clamps bound both in the same way.          *)

Abs(x) == IF x < 0 THEN 0 - x ELSE x

RECURSIVE Gcd(_, _)
Gcd(a, b) == IF b = 0 THEN a ELSE Gcd(b, a % b)

\* n/d in lowest terms
Ratio(n, d) ==
    LET g == Gcd(Abs(n), d)
    IN  [n |-> n \div g, d |-> d \div g]

Times(a, b) ==
    LET g1 == Gcd(Abs(a.n), b.d)
        g2 == Gcd(Abs(b.n), a.d)
    IN  [n |-> (a.n \div g1) * (b.n \div g2), d |-> (a.d \div g2) * (b.d \div g1)]

Plus(a, b) == Ratio(a.n * b.d + b.n * a.d, a.d * b.d)

Minus(a, b) == Ratio(a.n * b.d - b.n * a.d, a.d * b.d)

RECURSIVE Less(_, _)
\* a < b, by whole parts and then by the remainders, without products
Less(a, b) ==
    LET qa == a.n \div a.d
        qb == b.n \div b.d
        ra == a.n % a.d
        rb == b.n % b.d
    IN  IF qa # qb THEN qa < qb
        ELSE IF rb = 0 THEN FALSE
        ELSE IF ra = 0 THEN TRUE
        ELSE Less([n |-> b.d, d |-> rb], [n |-> a.d, d |-> ra])

LessEq(a, b) == ~Less(b, a)

\* Math.min, Math.max
MathMin(a, b) == IF Less(b, a) THEN b ELSE a
MathMax(a, b) == IF Less(a, b) THEN b ELSE a

----------------------------------------------------------------------------
(* Zoom: src/unnamed/part_000 lines 36-60 and 223-233, and                 *)
(* src/src/index.tsx lines 35 and 118-119                                  *)

VARIABLES
    globalZoomLevel,  \* richest variant: the module's zoom level
    zoomLevel,        \* richest variant: useState zoomLevel
    ixScale           \* index.tsx: useState scale

zoomVars == <<globalZoomLevel, zoomLevel, ixScale>>

ZoomInit ==
    /\ globalZoomLevel = Ratio(1, 1)
    /\ zoomLevel = Ratio(1, 1)
    /\ ixScale = Ratio(1, 1)

\* line 224, mutated: the cap is 4.0
zoomIn_Cap4(prev) == MathMin(Times(prev, Ratio(5, 4)), Ratio(4, 1))

\* line 224: prev * 1.25, at most 3.0
zoomIn(prev) == MathMin(Times(prev, Ratio(5, 4)), Ratio(3, 1))

\* line 228: prev / 1.25, at least 0.25
zoomOut(prev) == MathMax(Times(prev, Ratio(4, 5)), Ratio(1, 4))

\* line 232
resetZoom == Ratio(1, 1)

\* The zoom command name sets the zoom level to z; the effect of lines
\* 58-60 copies it to globalZoomLevel.
SetZoomLevel(name, z) ==
    /\ mounted
    /\ zoomLevel' = z
    /\ globalZoomLevel' = z
    /\ HostAfter(<<>>, EmptyPayload)
    /\ scrollCall' = 0
    /\ lastOp' = Op(name, 0)
    /\ UNCHANGED <<mounted, base64Data, blobData, blobUrl, contentType,
                   numPages, currentPage, loading, error, previousBlobUrl,
                   pending, docReady, reported, observerPages, ixScale>>

ZoomIn == SetZoomLevel("zoomIn", zoomIn(zoomLevel))

ZoomOut == SetZoomLevel("zoomOut", zoomOut(zoomLevel))

ResetZoom == SetZoomLevel("resetZoom", resetZoom)

\* index.tsx line 118: prev + 0.1, at most 3.0
ixZoomIn(prev) == MathMin(Plus(prev, Ratio(1, 10)), Ratio(3, 1))

\* index.tsx line 119: prev - 0.1, at least 0.5
ixZoomOut(prev) == MathMax(Minus(prev, Ratio(1, 10)), Ratio(1, 2))

IxSetScale(name, z) ==
    /\ ixScale' = z
    /\ ixScrollCall' = 0
    /\ ixLastOp' = Op(name, 0)
    /\ UNCHANGED <<ixBase64Data, pdfBlobUrl, ixNumPages, ixCurrentPage,
                   ixLoading, ixUrlsCreated, ixRevokeCount, ixUrlDoc,
                   ixPending, ixDocReady, ixObserverPages,
                   globalZoomLevel, zoomLevel>>

IxZoomIn == IxSetScale("zoomIn", ixZoomIn(ixScale))

IxZoomOut == IxSetScale("zoomOut", ixZoomOut(ixScale))

----------------------------------------------------------------------------
(* Page geometry: src/unnamed/part_000 lines 49-50 and 216-221 *)

VARIABLES
    pageWidth,        \* useState pageWidth (0: null)
    pageHeight        \* useState pageHeight (0: null)

geoVars == <<pageWidth, pageHeight>>

GeoInit == pageWidth = 0 /\ pageHeight = 0

Portrait == [width |-> 600, height |-> 800]
Landscape == [width |-> 800, height |-> 600]

\* what the rendering engine finds in a document: the natural size of its
\* pages.  PdfB opens with a landscape page, all other pages are portrait.
PageGeometry(base64, page) ==
    IF base64 = PdfB /\ page = 1 THEN Landscape ELSE Portrait

\* the payloads of the runs that follow the per-page callbacks
PagePayloads == {EmptyPayload, PdfA, PdfB}

\* lines 216-221: the geometry kept after a page reported { width, height }
onPageLoadSuccess(page) ==
    IF pageWidth = 0 THEN page
    ELSE [width |-> pageWidth, height |-> pageHeight]

\* <Page pageNumber={i}> of the document shown has loaded: it is one of the
\* pages rendered (lines 383-396) and a page of the file <Document> shows.
\* The pages load independently, so they report in any order.
PageLoadSuccess(i) ==
    /\ mounted
    /\ DocumentRendered
    /\ docReady
    /\ i \in 1..Min(RenderedPages, EnginePages(urlDoc[blobUrl]))
    /\ LET kept == onPageLoadSuccess(PageGeometry(urlDoc[blobUrl], i))
       IN  /\ pageWidth' = kept.width
           /\ pageHeight' = kept.height
    /\ HostAfter(<<>>, EmptyPayload)
    /\ scrollCall' = 0
    /\ lastOp' = Op("pageLoad", i)
    /\ UNCHANGED <<mounted, base64Data, blobData, blobUrl, contentType,
                   numPages, currentPage, loading, error, previousBlobUrl,
                   pending, docReady, reported, observerPages>>

----------------------------------------------------------------------------
(* The container: src/unnamed/part_000 lines 52-53 and 120-131 *)

VARIABLES
    containerWidth    \* useState containerWidth (0: not measured)

boxVars == <<containerWidth>>

\* line 53: the state before the container is measured
BoxIdle == containerWidth = 0

\* host: the widths the layout gives the container, which line 350 renders
\* in every state of the component
OffsetWidths == {340, 640}

\* lines 126-131: the mount effect has measured the container
BoxInit == containerWidth \in OffsetWidths

\* lines 121-125: containerWidth after a resize event, the container being
\* offsetWidth wide
handleResize(offsetWidth) == offsetWidth

\* lines 51 and 58-60: a commit of a handler that does not call
\* setZoomLevel, mutated: the zoom level is set back to 1.0
KeepZoomLevel_Reset ==
    /\ zoomLevel' = Ratio(1, 1)
    /\ globalZoomLevel' = Ratio(1, 1)

\* lines 51 and 58-60: a commit of a handler that does not call
\* setZoomLevel keeps zoomLevel, and the effect that copies it to
\* globalZoomLevel, its dependency unchanged, does not run
KeepZoomLevel == UNCHANGED <<globalZoomLevel, zoomLevel>>

\* the window is resized (line 129)
Resize(offsetWidth) ==
    /\ mounted
    /\ containerWidth' = handleResize(offsetWidth)
    /\ HostAfter(<<>>, EmptyPayload)
    /\ scrollCall' = 0
    /\ lastOp' = Op("resize", offsetWidth)
    /\ UNCHANGED <<mounted, base64Data, blobData, blobUrl, contentType,
                   numPages, currentPage, loading, error, previousBlobUrl,
                   pending, docReady, reported, observerPages>>

\* the payloads of the runs that interleave the zoom commands with the
\* other events: nothing, two documents, a document the engine cannot
\* parse and a text that does not decode
ViewerPayloads == {EmptyPayload, PdfA, PdfB, PdfCorrupt, Malformed}

----------------------------------------------------------------------------
(* The simplest variant: src/unnamed/part_000 lines 523-636 *)

VARIABLES
    smBase64Data,     \* Retool state "base64Data"
    smPdfBlobUrl,     \* useState pdfBlobUrl, or NoUrl
    smNumPages,       \* useState numPages (0: null)
    smCurrentPage,    \* useState currentPage
    smUrlsCreated,    \* host: object URLs created so far; none is ever revoked
    smUrlDoc,         \* host: the payload behind each object URL
    smPending,        \* engine: the loads <Document> started and has not reported
    smLastOp          \* the latest handler and its argument

smVars == <<smBase64Data, smPdfBlobUrl, smNumPages, smCurrentPage,
            smUrlsCreated, smUrlDoc, smPending, smLastOp>>

SmInit ==
    /\ smBase64Data = EmptyPayload
    /\ smPdfBlobUrl = NoUrl
    /\ smNumPages = 0
    /\ smCurrentPage = 1
    /\ smUrlsCreated = 0
    /\ smUrlDoc = [u \in Urls |-> EmptyPayload]
    /\ smPending = {}
    /\ smLastOp = Op("mount", 0)

\* host: the object URLs created and not revoked
SmLiveUrls == 1..smUrlsCreated

\* lines 561-570: the object URL shown after the effect on base64Data;
\* createOk: createObjectURL returns
SmBase64Effect(base64, createOk) ==
    IF base64 # <<>> /\ base64ToBlob(base64, Pdf) # NoBlob /\ createOk
    THEN smUrlsCreated + 1
    ELSE smPdfBlobUrl

\* The host sets base64Data to p.  <Document> (line 627) stays mounted once
\* an object URL is shown and starts the load of every new file.
SmSetBase64Data(p, createOk) ==
    /\ p # smBase64Data
    /\ LET url == SmBase64Effect(p, createOk)
           created == url # smPdfBlobUrl
       IN  /\ created => smUrlsCreated < MaxUrls
           /\ (p = <<>> \/ base64ToBlob(p, Pdf) = NoBlob) => createOk
           /\ smBase64Data' = p
           /\ smPdfBlobUrl' = url
           /\ smUrlsCreated' = IF created THEN url ELSE smUrlsCreated
           /\ smUrlDoc' = IF created THEN [smUrlDoc EXCEPT ![url] = p]
                          ELSE smUrlDoc
           /\ smPending' = IF created THEN smPending \cup {url} ELSE smPending
    /\ smLastOp' = Op("setBase64Data", 0)
    /\ UNCHANGED <<smNumPages, smCurrentPage>>

\* lines 572-574
smOnDocumentLoadSuccess(n) == n

SmDocumentLoadSuccess(u) ==
    /\ u \in smPending
    /\ EnginePages(smUrlDoc[u]) > 0
    /\ smNumPages' = smOnDocumentLoadSuccess(EnginePages(smUrlDoc[u]))
    /\ smPending' = smPending \ {u}
    /\ smLastOp' = Op("loadSuccess", u)
    /\ UNCHANGED <<smBase64Data, smPdfBlobUrl, smCurrentPage, smUrlsCreated,
                   smUrlDoc>>

\* The engine cannot parse the load u; no onLoadError is given (line 627).
SmDocumentLoadError(u) ==
    /\ u \in smPending
    /\ EnginePages(smUrlDoc[u]) = 0
    /\ smPending' = smPending \ {u}
    /\ smLastOp' = Op("loadError", u)
    /\ UNCHANGED <<smBase64Data, smPdfBlobUrl, smNumPages, smCurrentPage,
                   smUrlsCreated, smUrlDoc>>

\* lines 592-598: a click on the enabled "previous page" button
SmClickPrevPage ==
    /\ ~(smCurrentPage <= 1)
    /\ smCurrentPage' = Max(smCurrentPage - 1, 1)
    /\ smLastOp' = Op("prev", smCurrentPage)
    /\ UNCHANGED <<smBase64Data, smPdfBlobUrl, smNumPages, smUrlsCreated,
                   smUrlDoc, smPending>>

\* lines 606-612: a click on the enabled "next page" button
SmClickNextPage ==
    /\ ~(smNumPages = 0 \/ smCurrentPage >= smNumPages)
    /\ smCurrentPage' = Min(smCurrentPage + 1,
                            IF smNumPages # 0 THEN smNumPages ELSE 1)
    /\ smLastOp' = Op("next", smCurrentPage)
    /\ UNCHANGED <<smBase64Data, smPdfBlobUrl, smNumPages, smUrlsCreated,
                   smUrlDoc, smPending>>

----------------------------------------------------------------------------
(* calcAutoScale on its own: src/unnamed/part_000 lines 200-214 *)

\* lines 200-214: the scale given to every <Page> (line 391); a width or a
\* height of 0 stands for null
calcAutoScale(cw, pw, ph, zoom) ==
    IF cw = 0 \/ pw = 0 THEN zoom
    ELSE LET aspectRatio == IF ph # 0 /\ pw # 0 THEN Ratio(pw, ph) ELSE Ratio(1, 1)
             isLandscape == Less(Ratio(13, 10), aspectRatio)
             autoScale == Ratio(cw - 40, pw)
         IN  IF isLandscape /\ Less(Ratio(4, 5), zoom) THEN zoom
             ELSE Times(MathMin(autoScale, Ratio(1, 1)), zoom)

RECURSIVE ZoomClosure(_)
\* the zoom levels that zoomIn, zoomOut and resetZoom reach from those of S
ZoomClosure(S) ==
    LET T == S \cup {zoomIn(z) : z \in S} \cup {zoomOut(z) : z \in S}
               \cup {resetZoom}
    IN  IF T = S THEN S ELSE ZoomClosure(T)

\* the zoom levels reachable from the initial 1.0
ZoomLevels == ZoomClosure({Ratio(1, 1)})

\* offsetWidth of the container: not measured yet, narrower than the
\* padding, the padding, and wider
ContainerWidths == {0, 30, 40, 170, 340, 640, 1040}

\* page sizes: null, portrait, landscape, and one of aspect ratio 1.3
PageSizes ==
    {[width |-> 0, height |-> 0], Portrait, Landscape,
     [width |-> 260, height |-> 200]}

VARIABLES
    scContainerWidth, \* containerWidth given to calcAutoScale
    scPage,           \* pageWidth and pageHeight given to it
    scZoomLevel,      \* zoomLevel given to it
    scScale           \* what it returned (NoScale before the call)

scVars == <<scContainerWidth, scPage, scZoomLevel, scScale>>

NoScale == [n |-> 0, d |-> 0]

ScIdle ==
    /\ scContainerWidth = 0
    /\ scPage = [width |-> 0, height |-> 0]
    /\ scZoomLevel = Ratio(1, 1)
    /\ scScale = NoScale

ScInit ==
    /\ scContainerWidth \in ContainerWidths
    /\ scPage \in PageSizes
    /\ scZoomLevel \in ZoomLevels
    /\ scScale = NoScale

CalcAutoScale ==
    /\ scScale = NoScale
    /\ scScale' = calcAutoScale(scContainerWidth, scPage.width, scPage.height,
                                scZoomLevel)
    /\ UNCHANGED <<scContainerWidth, scPage, scZoomLevel>>

----------------------------------------------------------------------------
(* Specifications *)

vars == <<richVars, ixVars, detVars, obsVars, zoomVars, geoVars, boxVars, smVars,
          scVars>>

\* the three components after construction
Mounted == RichInit /\ IxInit /\ ZoomInit /\ GeoInit /\ SmInit

\* the richest variant
RichOnly == UNCHANGED <<ixVars, detVars, obsVars, zoomVars, geoVars, boxVars, smVars, scVars>>

Init == Mounted /\ BoxIdle /\ DetIdle /\ ObsIdle /\ ScIdle

Next ==
    \/ \E p \in Payloads, createOk \in BOOLEAN :
           SetBase64Data(p, createOk) /\ RichOnly
    \/ \E u \in Urls : DocumentLoadSuccess(u) /\ RichOnly
    \/ \E u \in Urls : DocumentLoadError(u) /\ RichOnly
    \/ \E entries \in SingleReports(Max(observerPages, 0)) :
           VisibilityReport(entries) /\ RichOnly
    \/ ClickPrevPage /\ RichOnly
    \/ ClickNextPage /\ RichOnly
    \/ Unmount /\ RichOnly

Spec == Init /\ [][Next]_vars

\* the index.tsx variant
IndexOnly == UNCHANGED <<richVars, detVars, obsVars, zoomVars, geoVars, boxVars, smVars, scVars>>

InitIndex == Mounted /\ BoxIdle /\ DetIdle /\ ObsIdle /\ ScIdle

NextIndex ==
    \/ \E p \in Payloads, createOk \in BOOLEAN :
           IxSetBase64Data(p, createOk) /\ IndexOnly
    \/ \E u \in Urls : IxDocumentLoadSuccess(u) /\ IndexOnly
    \/ \E entries \in SingleReports(Max(ixObserverPages, 0)) :
           IxVisibilityReport(entries) /\ IndexOnly
    \/ IxClickPrevPage /\ IndexOnly
    \/ IxClickNextPage /\ IndexOnly

SpecIndex == InitIndex /\ [][NextIndex]_vars

\* detectContentType applied to every text of DetectInputs
InitDetect == Mounted /\ BoxIdle /\ DetInit /\ ObsIdle /\ ScIdle

NextDetect ==
    Detect /\ UNCHANGED <<richVars, ixVars, obsVars, zoomVars, geoVars, boxVars, smVars, scVars>>

SpecDetect == InitDetect /\ [][NextDetect]_vars

\* the scan applied to every report of up to MaxEntries entries
InitObserver == Mounted /\ BoxIdle /\ DetIdle /\ ObsInit /\ ScIdle

NextObserver ==
    Observe /\ UNCHANGED <<richVars, ixVars, detVars, zoomVars, geoVars, boxVars, smVars, scVars>>

SpecObserver == InitObserver /\ [][NextObserver]_vars

\* the zoom commands of the richest and of the index.tsx variant
RichZoomOnly == UNCHANGED <<ixVars, detVars, obsVars, geoVars, boxVars, smVars, scVars>>

IndexZoomOnly == UNCHANGED <<richVars, detVars, obsVars, geoVars, boxVars, smVars, scVars>>

InitZoom == Mounted /\ BoxIdle /\ DetIdle /\ ObsIdle /\ ScIdle

NextZoom ==
    \/ ZoomIn /\ RichZoomOnly
    \/ ZoomOut /\ RichZoomOnly
    \/ ResetZoom /\ RichZoomOnly
    \/ IxZoomIn /\ IndexZoomOnly
    \/ IxZoomOut /\ IndexZoomOnly

SpecZoom == InitZoom /\ [][NextZoom]_vars

\* the richest variant with the per-page callbacks, on PagePayloads
RichPagesOnly == UNCHANGED <<ixVars, detVars, obsVars, zoomVars, boxVars, smVars, scVars>>

InitPages == Mounted /\ BoxIdle /\ DetIdle /\ ObsIdle /\ ScIdle

NextPages ==
    \/ \E p \in PagePayloads, createOk \in BOOLEAN :
           SetBase64Data(p, createOk) /\ UNCHANGED geoVars /\ RichPagesOnly
    \/ \E u \in Urls :
           DocumentLoadSuccess(u) /\ UNCHANGED geoVars /\ RichPagesOnly
    \/ \E i \in 1..MaxPages : PageLoadSuccess(i) /\ RichPagesOnly

SpecPages == InitPages /\ [][NextPages]_vars

\* the simplest variant
SimpleOnly == UNCHANGED <<richVars, ixVars, detVars, obsVars, zoomVars, geoVars, boxVars, scVars>>

InitSimple == Mounted /\ BoxIdle /\ DetIdle /\ ObsIdle /\ ScIdle

NextSimple ==
    \/ \E p \in Payloads, createOk \in BOOLEAN :
           SmSetBase64Data(p, createOk) /\ SimpleOnly
    \/ \E u \in Urls : SmDocumentLoadSuccess(u) /\ SimpleOnly
    \/ \E u \in Urls : SmDocumentLoadError(u) /\ SimpleOnly
    \/ SmClickPrevPage /\ SimpleOnly
    \/ SmClickNextPage /\ SimpleOnly

SpecSimple == InitSimple /\ [][NextSimple]_vars

\* calcAutoScale applied to every input of ScInit
InitScale == Mounted /\ BoxIdle /\ DetIdle /\ ObsIdle /\ ScInit

NextScale ==
    CalcAutoScale
    /\ UNCHANGED <<richVars, ixVars, detVars, obsVars, zoomVars, geoVars, boxVars,
                   smVars>>

SpecScale == InitScale /\ [][NextScale]_vars

\* the richest variant with its zoom commands, the per-page callbacks and
\* the resize events, on ViewerPayloads
ViewerOnly == UNCHANGED <<ixVars, ixScale, detVars, obsVars, smVars, scVars>>

\* the object URLs of these runs: one for each document of ViewerPayloads
\* the engine can parse, enough to replace one document by another
ViewerUrls == Cardinality({p \in ViewerPayloads : EnginePages(p) > 0})

\* the zoom commands of these runs stay within MaxZoomSteps steps of 1.0
MaxZoomSteps == 1

RECURSIVE ZoomNear(_)
\* the zoom levels at most steps zoomIn or zoomOut commands away from 1.0
ZoomNear(steps) ==
    IF steps = 0 THEN {Ratio(1, 1)}
    ELSE LET near == ZoomNear(steps - 1)
         IN  near \cup {zoomIn(z) : z \in near} \cup {zoomOut(z) : z \in near}

InitViewer == Mounted /\ BoxInit /\ DetIdle /\ ObsIdle /\ ScIdle

NextViewer ==
    \/ \E p \in ViewerPayloads, createOk \in BOOLEAN :
           /\ (blobDataMemo(p) # NoBlob /\ createOk) => urlsCreated < ViewerUrls
           /\ SetBase64Data(p, createOk)
           /\ KeepZoomLevel /\ UNCHANGED <<geoVars, boxVars>> /\ ViewerOnly
    \/ \E u \in Urls :
           /\ DocumentLoadSuccess(u)
           /\ KeepZoomLevel /\ UNCHANGED <<geoVars, boxVars>> /\ ViewerOnly
    \/ \E u \in Urls :
           /\ DocumentLoadError(u)
           /\ KeepZoomLevel /\ UNCHANGED <<geoVars, boxVars>> /\ ViewerOnly
    \/ \E i \in 1..MaxPages :
           PageLoadSuccess(i) /\ KeepZoomLevel /\ UNCHANGED boxVars /\ ViewerOnly
    \/ \E entries \in SingleReports(Max(observerPages, 0)) :
           /\ VisibilityReport(entries)
           /\ KeepZoomLevel /\ UNCHANGED <<geoVars, boxVars>> /\ ViewerOnly
    \/ ClickPrevPage /\ KeepZoomLevel /\ UNCHANGED <<geoVars, boxVars>> /\ ViewerOnly
    \/ ClickNextPage /\ KeepZoomLevel /\ UNCHANGED <<geoVars, boxVars>> /\ ViewerOnly
    \/ \E offsetWidth \in OffsetWidths :
           Resize(offsetWidth) /\ KeepZoomLevel /\ UNCHANGED geoVars /\ ViewerOnly
    \/ ZoomIn /\ zoomLevel' \in ZoomNear(MaxZoomSteps) /\ RichZoomOnly
    \/ ZoomOut /\ zoomLevel' \in ZoomNear(MaxZoomSteps) /\ RichZoomOnly
    \/ ResetZoom /\ RichZoomOnly

SpecViewer == InitViewer /\ [][NextViewer]_vars

----------------------------------------------------------------------------
(* Claims *)

HasCreate(calls) == \E i \in 1..Len(calls) : calls[i].op = "create"

\* C1: in the richest variant at most one created object URL is live in
\* every reachable state; exactly one is live after a payload that
\* decodes and is published (a live URL shown is the only live one), and
\* none is live after the component's teardown.
C1_OneLiveUrl ==
    /\ Cardinality(LiveUrls) <= 1
    /\ (lastOp.op = "setBase64Data" /\ HasCreate(urlCalls))
           => (Cardinality(LiveUrls) = 1 /\ LiveUrls = {blobUrl})
    /\ (mounted /\ blobUrl # NoUrl) => LiveUrls = {blobUrl}
    /\ ~mounted => LiveUrls = {}

\* a teardown that revokes the last of several object URLs
C1_Witness ==
    /\ ~mounted
    /\ urlsCreated >= 2
    /\ urlCalls = <<Revoke(urlsCreated)>>
    /\ LiveUrls = {}

\* C2: when a handler creates an object URL while another is live, it has
\* revoked that one earlier in the same run: the old and the new are never
\* live together.
C2_RevokeBeforeCreate ==
    [][\A j \in 1..Len(urlCalls') :
           urlCalls'[j].op = "create"
           => \A u \in LiveUrls :
                  \E i \in 1..(j - 1) : urlCalls'[i] = Revoke(u)]_vars

\* a payload replaced a document with a live object URL
C2_Witness ==
    /\ lastOp.op = "setBase64Data"
    /\ urlCalls = <<Revoke(1), Create(2)>>
    /\ blobUrl = 2

\* C3: document A loaded with 3 pages and was replaced by the next
\* document B.  A's object URL is revoked exactly once from then on, the
\* teardown included, and when the engine reports B's page count the page
\* count is B's and the current page is 1.
C3_ReplaceLoadedDocument ==
    \A a \in 1..urlsCreated :
        LET b == a + 1
        IN  (b <= urlsCreated /\ reported[a] = 3)
            => /\ revokeCount[a] = 1
               /\ (lastOp = Op("loadSuccess", b) /\ blobUrl = b)
                      => /\ numPages = EnginePages(urlDoc[b])
                         /\ currentPage = 1

\* A (3 pages) loaded, B (5 pages) replaced it and has just loaded
C3_Witness ==
    /\ urlDoc[1] = PdfA
    /\ reported[1] = 3
    /\ urlDoc[2] = PdfB
    /\ blobUrl = 2
    /\ lastOp = Op("loadSuccess", 2)
    /\ numPages = 5
    /\ revokeCount[1] = 1

\* C4: after the payload became empty or failed to decode, no object URL
\* was created, none is live, and the state is "no document": no URL, no
\* category, page count 0, current page 1.
C4_NoDocumentOnNullBlob ==
    (lastOp.op = "setBase64Data" /\ blobDataMemo(base64Data) = NoBlob)
    => /\ ~HasCreate(urlCalls)
       /\ LiveUrls = {}
       /\ blobUrl = NoUrl
       /\ contentType = NoType
       /\ numPages = 0
       /\ currentPage = 1

\* a malformed payload replaced a loaded document, whose URL was revoked
C4_Witness ==
    /\ lastOp.op = "setBase64Data"
    /\ base64Data = Malformed
    /\ reported[1] = 3
    /\ urlCalls = <<Revoke(1)>>
    /\ numPages = 0

\* a non-empty payload that atob rejects
FailsToDecode(base64) == base64 # <<>> /\ atob(base64) < 0

\* C5 as stated: after a non-empty payload that is not valid base64 the
\* error is shown, the page count is 0 and download is disabled.
C5_ErrorOnMalformed ==
    (lastOp.op = "setBase64Data" /\ FailsToDecode(base64Data))
    => /\ ErrorShown
       /\ numPages = 0
       /\ isDownloadDisabled

\* C5 amended: after a non-empty payload that is not valid base64 no error
\* is set and the "no file" message is shown, the page count is 0 and
\* download is disabled.
C5_NoFileOnMalformed ==
    (lastOp.op = "setBase64Data" /\ FailsToDecode(base64Data))
    => /\ ~ErrorShown
       /\ NoFileShown
       /\ numPages = 0
       /\ isDownloadDisabled

\* a payload with the PDF prefix that atob rejects, after an engine failure
C5_Witness ==
    /\ lastOp.op = "setBase64Data"
    /\ base64Data = MalformedPdf
    /\ reported[1] = -1
    /\ NoFileShown

\* C6: with a page count known the current page is within 1..numPages, and
\* it is 1 right after the engine reported a document's page count.
C6_CurrentPageInRange ==
    /\ numPages > 0 => (1 <= currentPage /\ currentPage <= numPages)
    /\ lastOp.op = "loadSuccess" => currentPage = 1

\* a visibility report moved the current page to the last page
C6_Witness ==
    /\ lastOp.op = "visibility"
    /\ numPages = MaxPages
    /\ currentPage = numPages

\* C7 as stated, step by step: a payload with the PDF prefix that is
\* published has category PDF; the engine's report of 5 pages gives
\* Loaded(PDF, 5, currentPage 1); each nextPage() then moves the current
\* page one forward (so three of them reach page 4).
C7_PdfScenario ==
    [][/\ (lastOp'.op = "setBase64Data" /\ blobUrl' # NoUrl
            /\ StartsWith(base64Data', <<"J","V","B","E","R">>))
              => contentType' = Pdf
       /\ (lastOp' = Op("loadSuccess", blobUrl) /\ reported'[blobUrl] = 5)
              => (contentType' = Pdf /\ numPages' = 5 /\ currentPage' = 1)
       /\ (lastOp'.op = "next" /\ numPages = 5)
              => currentPage' = currentPage + 1]_vars

\* C9 as stated: a report of the engine for a load that is no longer the
\* file shown leaves the page count, the current page and the error alone.
C9_StaleCallbackIgnored ==
    [][(lastOp'.op \in {"loadSuccess", "loadError"} /\ lastOp'.arg # blobUrl)
       => (numPages' = numPages /\ currentPage' = currentPage
           /\ error' = error)]_vars

\* pages asked of goToPage
NavPages == (0 - 1)..(MaxPages + 2)

MagicTable ==
    <<[prefix |-> <<"J","V","B","E","R">>, type |-> "application/pdf"],
      [prefix |-> <<"/","9","j","/">>, type |-> "image/jpeg"],
      [prefix |-> <<"i","V","B","O","R">>, type |-> "image/png"],
      [prefix |-> <<"R","0","l","G","O","D">>, type |-> "image/gif"],
      [prefix |-> <<"U","k","l","G","R">>, type |-> "image/webp"]>>

FirstMatch(text) ==
    LET hits == {i \in 1..Len(MagicTable) : StartsWith(text, MagicTable[i].prefix)}
    IN  IF hits = {} THEN 0
        ELSE CHOOSE i \in hits : \A k \in hits : i <= k

\* C10: the category detected is that of the first prefix of the table the
\* text starts with, and PDF when it starts with none.
C10_DetectByFirstPrefix ==
    detResult # "none"
    => detResult = IF FirstMatch(detInput) = 0 THEN "application/pdf"
                   ELSE MagicTable[FirstMatch(detInput)].type

\* a GIF text was categorised
C10_Witness ==
    /\ detResult = "image/gif"
    /\ StartsWith(detInput, <<"R","0","l","G","O","D">>)
    /\ Len(detInput) > 6

\* C11: from zoom 1.0, after any sequence of zoom commands the zoom level
\* of the richest variant is within 0.25..3.0 and the scale of the
\* index.tsx variant within 0.5..3.0, and right after resetZoom the zoom
\* level is exactly 1.0.
C11_ZoomBounded ==
    /\ LessEq(Ratio(1, 4), zoomLevel) /\ LessEq(zoomLevel, Ratio(3, 1))
    /\ LessEq(Ratio(1, 2), ixScale) /\ LessEq(ixScale, Ratio(3, 1))
    /\ lastOp.op = "resetZoom" => zoomLevel = Ratio(1, 1)

\* zoomOut has clamped the richest variant to its floor, and the index.tsx
\* variant is at its cap
C11_Witness ==
    /\ lastOp.op = "zoomOut"
    /\ zoomLevel = Ratio(1, 4)
    /\ ixScale = Ratio(3, 1)

\* C12: while the component shows an image, no observer is connected (no
\* visibility report is delivered), goToPage, prev and next scroll nowhere
\* (they never set the current page or the page count), the page buttons
\* are not rendered, and download resolves to the one live object URL.
C12_ImageHasNoPagination ==
    (mounted /\ contentType \in ImageTypes)
    => /\ observerPages = -1
       /\ \A n \in NavPages : goToPage(n) = 0
       /\ goToPrevPage = 0
       /\ goToNextPage = 0
       /\ ~PageButtonsRendered
       /\ ~isDownloadDisabled
       /\ LiveUrls = {downloadLink}

\* an image replaced a PDF that was loaded and scrolled to page 2
C12_Witness ==
    /\ mounted
    /\ contentType = "image/jpeg"
    /\ numPages = 3
    /\ currentPage = 2
    /\ LiveUrls = {downloadLink}

\* C13: an engine failure sets the error and leaves the object URL and the
\* host alone; while the error of the engine is set the page count is 0
\* and the one live object URL is still offered for download; and only a
\* payload change ends that error.
C13_EngineFailurePersists ==
    /\ [](( mounted /\ error = PdfError)
          => (numPages = 0 /\ ~isDownloadDisabled /\ LiveUrls = {downloadLink}))
    /\ [][lastOp'.op = "loadError"
          => (error' = PdfError /\ numPages' = 0 /\ blobUrl' = blobUrl
              /\ urlCalls' = <<>> /\ LiveUrls' = LiveUrls)]_vars
    /\ [][(error = PdfError /\ error' # PdfError)
          => lastOp'.op = "setBase64Data"]_vars

\* the engine rejected the document shown, which replaced a loaded one
C13_Witness ==
    /\ lastOp = Op("loadError", blobUrl)
    /\ urlDoc[blobUrl] = PdfCorrupt
    /\ reported[1] = 3
    /\ error = PdfError
    /\ numPages = 0
    /\ LiveUrls = {downloadLink}

\* C14: a payload change that follows an error (of the engine or of
\* createObjectURL) or a payload that failed to decode runs the effect
\* afresh: a payload that yields no blob leaves no error and no document;
\* one that decodes is given to createObjectURL, and unless that throws
\* again the error is cleared, the new object URL is the only live one,
\* stands for the new payload and, for a PDF, is the only load <Document>
\* has pending.  When the engine then reports the page count of the
\* document shown, the component shows that page count without an error.
C14_FreshAttemptAfterError ==
    /\ [][((error # NoError \/ FailsToDecode(base64Data))
           /\ lastOp'.op = "setBase64Data")
          => /\ blobDataMemo(base64Data') = NoBlob
                    => (error' = NoError /\ blobUrl' = NoUrl)
             /\ blobDataMemo(base64Data') # NoBlob
                    => (HasCreate(urlCalls') \/ error' = FileError)
             /\ HasCreate(urlCalls')
                    => /\ error' = NoError
                       /\ blobUrl' = urlsCreated + 1
                       /\ urlDoc'[blobUrl'] = base64Data'
                       /\ LiveUrls' = {blobUrl'}
                       /\ contentType' = detectContentType(base64Data')
                       /\ contentType' = Pdf => pending' = {blobUrl'}]_vars
    /\ [](lastOp = Op("loadSuccess", blobUrl)
          => /\ numPages = EnginePages(urlDoc[blobUrl])
             /\ numPages > 0
             /\ contentType = Pdf
             /\ error = NoError)

\* the engine rejected the first document; the next one is loaded
C14_Witness ==
    /\ reported[1] = 0 - 1
    /\ blobUrl = 2
    /\ urlCalls = <<>>
    /\ lastOp = Op("loadSuccess", 2)
    /\ numPages = EnginePages(urlDoc[2])
    /\ error = NoError

\* C15 as stated, for the simplest variant: with a page count known the
\* current page is within 1..numPages, and it is 1 right after the engine
\* reported a document's page count.
C15_SimplePageInRange ==
    /\ smNumPages > 0 => (1 <= smCurrentPage /\ smCurrentPage <= smNumPages)
    /\ smLastOp.op = "loadSuccess" => smCurrentPage = 1

\* C16 as stated, for the index.tsx variant and the simplest variant: at
\* most one created object URL is live.
C16_OneLiveUrlOtherVariants ==
    /\ Cardinality(IxLiveUrls) <= 1
    /\ Cardinality(SmLiveUrls) <= 1

\* C17 as stated: the page count is 0 right after a payload change that
\* published a document, and in every state that shows an image.
C17_PageCountEmptyOnChange ==
    /\ (lastOp.op = "setBase64Data" /\ HasCreate(urlCalls)) => numPages = 0
    /\ contentType \in ImageTypes => numPages = 0

\* every entry of the report maps to a page
AllMapped(entries) == entries # <<>> /\ \A i \in 1..Len(entries) : entries[i].page # 0

\* the first entry of the report with the highest intersection ratio
FirstMax(entries) ==
    CHOOSE i \in 1..Len(entries) :
        /\ \A j \in 1..Len(entries) : entries[j].ratio <= entries[i].ratio
        /\ \A j \in 1..(i - 1) : entries[j].ratio < entries[i].ratio

\* C18 as stated: after a report whose entries all map to pages the current
\* page is the page of the first entry with the highest ratio, in both
\* variants, and the callback scrolled nowhere.
C18_AdoptsHighestRatio ==
    (obsNewPage # -1 /\ AllMapped(obsEntries))
    => /\ obsAdopted = obsEntries[FirstMax(obsEntries)].page
       /\ obsIxAdopted = obsEntries[FirstMax(obsEntries)].page
       /\ obsScrolled = 0

\* C18 amended: after a report whose entries all map to pages the current
\* page is the page of the first entry with the highest ratio when that
\* ratio is positive, and is unchanged when no entry intersects; in both
\* variants, and the callback scrolled nowhere.
C18_AdoptsHighestPositiveRatio ==
    (obsNewPage # -1 /\ AllMapped(obsEntries))
    => LET best == obsEntries[FirstMax(obsEntries)]
           page == IF best.ratio > 0 THEN best.page ELSE obsCurrentPage
       IN  /\ obsAdopted = page
           /\ obsIxAdopted = page
           /\ obsScrolled = 0

\* two pages tie at the highest ratio and the first of them is adopted
C18_Witness ==
    /\ Len(obsEntries) = 2
    /\ obsEntries[1].page = 3
    /\ obsEntries[2].page = 2
    /\ obsEntries[1].ratio = obsEntries[2].ratio
    /\ obsEntries[1].ratio > 0
    /\ obsCurrentPage = 1
    /\ obsAdopted = 3
    /\ obsIxAdopted = 3

\* C19 as stated: with the container measured and the page size known, the
\* scale is the zoom level for a landscape page (width/height > 1.3) at a
\* zoom above 0.8, and otherwise
\* min((containerWidth - 40) / pageWidth, 1.0) * zoom; and the scale is
\* within 0.25..3.0.
C19_ScaleClamped ==
    (scScale # NoScale /\ scPage.width # 0 /\ scContainerWidth # 0)
    => /\ scScale =
              IF Less(Ratio(13, 10), Ratio(scPage.width, scPage.height))
                 /\ Less(Ratio(4, 5), scZoomLevel)
              THEN scZoomLevel
              ELSE Times(MathMin(Ratio(scContainerWidth - 40, scPage.width),
                                 Ratio(1, 1)),
                         scZoomLevel)
       /\ LessEq(Ratio(1, 4), scScale)
       /\ LessEq(scScale, Ratio(3, 1))

\* C20 as stated: while a loaded document is shown, the page size kept for
\* the scale, once known, is the size of that document's page 1.
C20_GeometryOfPageOne ==
    (mounted /\ DocumentRendered /\ docReady /\ pageWidth # 0)
    => /\ pageWidth = PageGeometry(urlDoc[blobUrl], 1).width
       /\ pageHeight = PageGeometry(urlDoc[blobUrl], 1).height

\* the handlers of the three zoom commands
ZoomCommands == {"zoomIn", "zoomOut", "resetZoom"}

\* C21: in the richest variant a step of any handler but zoomIn, zoomOut and
\* resetZoom (payload change, clear, decode failure, engine success and
\* failure, per-page callback, visibility report, navigation, resize)
\* leaves zoomLevel and globalZoomLevel unchanged; a step that changes the
\* zoom level changes nothing of the document, the page geometry or the
\* container; and the two zoom levels agree throughout.
C21_ZoomOnlyByCommands ==
    /\ [](globalZoomLevel = zoomLevel)
    /\ [][/\ lastOp'.op \notin ZoomCommands
             => UNCHANGED <<zoomLevel, globalZoomLevel>>
          /\ zoomLevel' # zoomLevel
             => /\ lastOp'.op \in ZoomCommands
                /\ UNCHANGED <<base64Data, blobData, blobUrl, contentType,
                               numPages, currentPage, loading, error,
                               pageWidth, pageHeight, containerWidth>>]_vars

\* the latest handler replaced the first document, whose page size is known,
\* by the second, and the zoom level set before is still in place
C21_Witness ==
    /\ lastOp.op = "setBase64Data"
    /\ urlCalls = <<Revoke(1), Create(2)>>
    /\ urlDoc[1] = PdfA
    /\ base64Data = PdfB
    /\ pageWidth # 0
    /\ zoomLevel = Ratio(5, 4)
    /\ globalZoomLevel = Ratio(5, 4)

\* the entries of the report whose target is a tracked page element
Tracked(entries) == SelectSeq(entries, LAMBDA entry : entry.page # 0)

\* C22 as stated: after a report that holds entries of untracked targets next
\* to entries of tracked pages, the current page is what the tracked entries
\* alone determine, in both variants: the page of the first of them with the
\* highest ratio when that ratio is positive, and unchanged otherwise.
C22_UntrackedEntriesIgnored ==
    (/\ obsNewPage # -1
     /\ Tracked(obsEntries) # <<>>
     /\ Tracked(obsEntries) # obsEntries)
    => LET tracked == Tracked(obsEntries)
           best == tracked[FirstMax(tracked)]
           page == IF best.ratio > 0 THEN best.page ELSE obsCurrentPage
       IN  /\ obsAdopted = page
           /\ obsIxAdopted = page

====
